---- MODULE Spec2Model ----
(***************************************************************************)
(* A model of datamultiproc.py: run_data_processors (the orchestrator),    *)
(* logger_process_run (the single log writer), and                         *)
(* wrapper_process_with_keyboard_exception (one per worker process), which *)
(* communicate through one multiprocessing.Queue.                          *)
(* SpecLoader runs the same processes with the work functions of           *)
(* payments-records-loader.py, insert_payment_records and                  *)
(* query_payment_records.                                                  *)
(*                                                                         *)
(* Environment assumptions of the model:                                   *)
(*  - each process receives at most one KeyboardInterrupt (one SIGINT);    *)
(*  - the queue's pipe never fills (the queue is created unbounded);       *)
(*  - the work function is an arbitrary callback: it may put any text on   *)
(*    the queue, return, let an error escape, or be interrupted.           *)
(***************************************************************************)
EXTENDS Integers, Sequences, FiniteSets, TLC

(***************************************************************************)
(* Bounds of the model.                                                    *)
(***************************************************************************)
\* largest processor_count tried; workers are 0 .. MaxProcs-1
MaxProcs == 2
\* largest records_count tried by the concurrent specification
MaxRecords == 2
\* most messages the work functions of one run put on the queue
MaxMsgs == 2
\* SpecPartition: records_count = m * 2^k + c, k up to MANT_DIG + MaxShift
MaxShift == 1
\* SpecPartition: largest low part c of records_count
MaxLow == 7
\* SpecPartition: largest processor_count tried
MaxDivisor == 4
\* SpecLoader: largest small records_count (--totalrec) tried
MaxTotalRec == 4

(***************************************************************************)
(* Program constants.                                                      *)
(***************************************************************************)
STOP_TOKEN == "EOF!!"
\* significand bits of a Python float (IEEE 754 binary64), the type of
\* records_count / processor_count
MANT_DIG == 53

(***************************************************************************)
(* Naturals of arbitrary size (Python int) as bit sequences, most          *)
(* significant bit first, no leading zero; <<>> is 0.                      *)
(***************************************************************************)
RECURSIVE NatToBits(_)
NatToBits(n) == IF n = 0 THEN <<>> ELSE Append(NatToBits(n \div 2), n % 2)

RECURSIVE BitsToNat(_)
BitsToNat(bs) ==
    IF bs = <<>> THEN 0
    ELSE 2 * BitsToNat(SubSeq(bs, 1, Len(bs) - 1)) + bs[Len(bs)]

Strip(bs) ==
    LET ones == {j \in 1..Len(bs) : bs[j] = 1}
    IN  IF ones = {} THEN <<>>
        ELSE SubSeq(bs, CHOOSE j \in ones : \A k \in ones : j <= k, Len(bs))

Zeros(k) == [j \in 1..k |-> 0]

\* m * 2^k + c, for c < 2^k
Shifted(m, k, c) ==
    LET lo == NatToBits(c)
    IN  Strip(NatToBits(m) \o Zeros(k - Len(lo)) \o lo)

\* long division by a small positive b of the bits bs that follow a part
\* whose remainder was r0: the quotient bits and the remainder.  The
\* recursion halves bs, so that its depth is the logarithm of the length.
RECURSIVE DivStep(_, _, _)
DivStep(bs, b, r0) ==
    IF bs = <<>> THEN [q |-> <<>>, r |-> r0]
    ELSE IF Len(bs) = 1
    THEN LET cur == 2 * r0 + bs[1]
         IN  IF cur >= b THEN [q |-> <<1>>, r |-> cur - b]
             ELSE [q |-> <<0>>, r |-> cur]
    ELSE LET h  == Len(bs) \div 2
             hi == DivStep(SubSeq(bs, 1, h), b, r0)
             lo == DivStep(SubSeq(bs, h + 1, Len(bs)), b, hi.r)
         IN  [q |-> hi.q \o lo.q, r |-> lo.r]

FloorDiv(bs, b) == Strip(DivStep(bs, b, 0).q)
Mod(bs, b) == DivStep(bs, b, 0).r

\* bs + 1
Inc(bs) ==
    LET zeros == {j \in 1..Len(bs) : bs[j] = 0}
    IN  IF zeros = {} THEN <<1>> \o Zeros(Len(bs))
        ELSE LET z == CHOOSE j \in zeros : \A k \in zeros : k <= j
             IN  [j \in 1..Len(bs) |->
                    IF j < z THEN bs[j] ELSE IF j = z THEN 1 ELSE 0]

\* bs + c, for a small natural c
RECURSIVE AddSmall(_, _)
AddSmall(bs, c) == IF c = 0 THEN bs ELSE AddSmall(Inc(bs), c - 1)

Reverse(bs) == [j \in 1..Len(bs) |-> bs[Len(bs) + 1 - j]]

\* bs * b + c0, for small naturals b and c0: the low Len(bs) bits of the
\* result, least significant first, and the carry out of them
RECURSIVE MulStep(_, _, _)
MulStep(bs, b, c0) ==
    IF bs = <<>> THEN [rev |-> <<>>, carry |-> c0]
    ELSE IF Len(bs) = 1
    THEN LET cur == bs[1] * b + c0
         IN  [rev |-> <<cur % 2>>, carry |-> cur \div 2]
    ELSE LET h  == Len(bs) \div 2
             lo == MulStep(SubSeq(bs, h + 1, Len(bs)), b, c0)
             hi == MulStep(SubSeq(bs, 1, h), b, lo.carry)
         IN  [rev |-> lo.rev \o hi.rev, carry |-> hi.carry]

MulSmall(bs, b) ==
    LET m == MulStep(bs, b, 0)
    IN  Strip(NatToBits(m.carry) \o Reverse(m.rev))

\* the first k binary digits of r/b (0 <= r < b) and what is left
RECURSIVE FracStep(_, _, _)
FracStep(r, b, k) ==
    IF k = 0 THEN [bits |-> <<>>, r |-> r]
    ELSE IF k = 1
    THEN IF 2 * r >= b THEN [bits |-> <<1>>, r |-> 2 * r - b]
         ELSE [bits |-> <<0>>, r |-> 2 * r]
    ELSE LET h  == k \div 2
             hi == FracStep(r, b, h)
             lo == FracStep(hi.r, b, k - h)
         IN  [bits |-> hi.bits \o lo.bits, r |-> lo.r]

AllOnes(bs) == \A j \in 1..Len(bs) : bs[j] = 1
AnyOne(bs) == \E j \in 1..Len(bs) : bs[j] = 1

(***************************************************************************)
(* int(a / b) for a >= 0, b > 0: the quotient correctly rounded to a float *)
(* of MANT_DIG significant bits (round half to even), then truncated.      *)
(* A quotient below 1 truncates to 0: it rounds to 1.0 only for            *)
(* b > 2^MANT_DIG.                                                         *)
(***************************************************************************)
IntTrueDiv(a, b) ==
    LET q == FloorDiv(a, b)
        r == Mod(a, b)
        n == Len(q)
    IN  IF n = 0 THEN <<>>
        ELSE IF n > MANT_DIG
        THEN \* no fraction bit is kept: round the integer quotient itself
             LET mant   == SubSeq(q, 1, MANT_DIG)
                 guard  == q[MANT_DIG + 1]
                 sticky == AnyOne(SubSeq(q, MANT_DIG + 2, n)) \/ r # 0
                 up     == guard = 1 /\ (sticky \/ mant[MANT_DIG] = 1)
             IN  (IF up THEN Inc(mant) ELSE mant) \o Zeros(n - MANT_DIG)
        ELSE \* MANT_DIG - n fraction bits are kept, then one guard bit
             LET f      == FracStep(r, b, MANT_DIG - n)
                 g      == FracStep(f.r, b, 1)
                 mant   == q \o f.bits
                 up     == g.bits[1] = 1 /\ (g.r # 0 \/ mant[MANT_DIG] = 1)
             IN  IF up /\ AllOnes(f.bits) THEN Inc(q) ELSE q

\* int(records_count / processor_count) for processor_count # 0: a true
\* division, whose float result int() truncates toward zero
PyIntTrueDiv(a, b) ==
    IF b > 0 THEN [neg |-> FALSE, mag |-> IntTrueDiv(a, b)]
    ELSE LET mag == IntTrueDiv(a, 0 - b)
         IN  [neg |-> mag # <<>>, mag |-> mag]

(***************************************************************************)
(* Processes, messages and state.                                          *)
(***************************************************************************)
Workers == 0 .. MaxProcs - 1

\* what a work function may put on the queue: any text, the text of the
\* stop token included
Texts == {"line", STOP_TOKEN}

NoMsg == [src |-> "none", n |-> 0, text |-> ""]
\* src and n tell the messages apart; the program reads only text
StaleMsg == [src |-> "stale", n |-> 0, text |-> "line"]
StopMsg == [src |-> "orch", n |-> 1, text |-> STOP_TOKEN]
WorkerMsg(w, k, t) == [src |-> ToString(w), n |-> k, text |-> t]
None == [neg |-> FALSE, mag |-> <<2>>]

VARIABLES
    processor_count,     \* argument of run_data_processors
    records_count,       \* argument of run_data_processors, as bits
    file_exists,         \* whether a file exists at logfile_name
    sink,                \* the content of that file on disk, in write order
    sink0,               \* the content of that file when the run began
    pc_o,                \* the orchestrator's position (a source line)
    records_per_process, \* the local of run_data_processors, None if unset
    err,                 \* the exception run_data_processors raised
    notice,              \* whether the 'Interrupted' notice was printed
    exit_o,              \* the orchestrator's os._exit status, -1 if none
    i,                   \* index of the for loop the orchestrator is in
    stops_sent,          \* number of log_queue.put(STOP_TOKEN) executed
    oint,                \* whether the orchestrator has had a KeyboardInterrupt
    lpc,                 \* the logger process's position
    line,                \* the logger's local 'line'
    fbuf,                \* written to f and not yet flushed
    stop_from,           \* producer of the message that ended the logger
    lexit,               \* the logger process's exit status, -1 if none
    dequeued,            \* what log_queue.get() has returned to the logger
    wpc,                 \* each worker process's position
    wexit,               \* each worker process's exit status, -1 if none
    wargs,               \* the args each worker Process was constructed with
    emitted,             \* what each work function has put on the queue
    wexc,                \* the exception that left each work function
    called,              \* the arguments of each call of the work function
    func,                \* argument func_to_parallelise: the work function
    fpc,                 \* each worker's position in a supplied work function
    count,               \* its loop variable 'count'
    doc_id,              \* the _id of its pending database call, "" if none
    ids,                 \* the _ids insert_payment_records has built
    db_ops,              \* its calls of insert_one or find_one
    caught,              \* the count at which it caught an Exception, or -1
    lint,                \* whether the logger has had a KeyboardInterrupt
    buf,                 \* the queue's buffer in each worker process
    obuf,                \* the queue's buffer in the orchestrator
    pipe                 \* the queue's pipe

ovars == <<pc_o, records_per_process, err, notice, exit_o, i, stops_sent, oint>>
lvars == <<lpc, line, fbuf, stop_from, lexit, lint, dequeued>>
fnvars == <<fpc, count, doc_id, ids, db_ops, caught>>
wvars == <<wpc, wexit, wargs, emitted, wexc, called, fnvars>>
fvars == <<file_exists, sink>>
args == <<processor_count, records_count, sink0, func>>
qvars == <<buf, obuf, pipe>>
vars == <<args, fvars, ovars, lvars, wvars, qvars>>

\* the state at the call of run_data_processors, but for its arguments and
\* what is at logfile_name
InitRun ==
    /\ pc_o = "l20" /\ records_per_process = None /\ err = "none"
    /\ notice = FALSE /\ exit_o = -1 /\ i = 0 /\ stops_sent = 0
    /\ oint = FALSE
    /\ lpc = "none" /\ line = NoMsg /\ fbuf = <<>> /\ stop_from = "none"
    /\ lexit = -1 /\ lint = FALSE /\ dequeued = <<>>
    /\ wpc = [w \in Workers |-> "none"]
    /\ wexit = [w \in Workers |-> -1]
    /\ wargs = [w \in Workers |-> <<>>]
    /\ emitted = [w \in Workers |-> <<>>]
    /\ wexc = [w \in Workers |-> "none"]
    /\ called = [w \in Workers |-> <<>>]
    /\ fpc = [w \in Workers |-> "none"]
    /\ count = [w \in Workers |-> 0]
    /\ doc_id = [w \in Workers |-> ""]
    /\ ids = [w \in Workers |-> <<>>]
    /\ db_ops = [w \in Workers |-> 0]
    /\ caught = [w \in Workers |-> -1]
    /\ buf = [w \in Workers |-> <<>>]
    /\ obuf = <<>>
    /\ pipe = <<>>

\* no file, or a file with content of an earlier run
InitFile ==
    /\ file_exists \in BOOLEAN
    /\ sink = IF file_exists THEN <<StaleMsg>> ELSE <<>>
    /\ sink0 = sink

Init ==
    /\ processor_count \in -1 .. MaxProcs
    /\ records_count \in {NatToBits(n) : n \in 0 .. MaxRecords}
    /\ func = "work_function"
    /\ InitFile
    /\ InitRun

(***************************************************************************)
(* run_data_processors                                                     *)
(***************************************************************************)
\* records_per_process = int(records_count / processor_count)
OrchDivide ==
    /\ pc_o = "l20"
    /\ IF processor_count = 0
       THEN /\ pc_o' = "raised"
            /\ err' = "ZeroDivisionError"
            /\ UNCHANGED records_per_process
       ELSE /\ records_per_process' = PyIntTrueDiv(records_count, processor_count)
            /\ pc_o' = "l23"
            /\ UNCHANGED err
    /\ UNCHANGED <<notice, exit_o, i, stops_sent, oint>>
    /\ UNCHANGED <<args, fvars, lvars, wvars, qvars>>

\* whether os.remove under contextlib.suppress(FileNotFoundError) raises,
\* given whether the file exists
RemoveRaisesUnsuppressed(exists) == ~exists

RemoveRaises(exists) == FALSE

\* with contextlib.suppress(FileNotFoundError): os.remove(logfile_name)
OrchRemove ==
    /\ pc_o = "l23"
    /\ IF RemoveRaises(file_exists)
       THEN /\ pc_o' = "raised"
            /\ err' = "FileNotFoundError"
            /\ UNCHANGED fvars
       ELSE /\ file_exists' = FALSE
            /\ sink' = <<>>
            /\ pc_o' = "l26"
            /\ UNCHANGED err
    /\ UNCHANGED <<records_per_process, notice, exit_o, i, stops_sent, oint>>
    /\ UNCHANGED <<args, lvars, wvars, qvars>>

\* log_queue = Queue(); log_process = Process(...); log_process.start()
OrchStartLogger ==
    /\ pc_o = "l26"
    /\ lpc' = "started"
    /\ pc_o' = "l32"
    /\ i' = 0
    /\ UNCHANGED <<records_per_process, err, notice, exit_o, stops_sent, oint>>
    /\ UNCHANGED <<line, fbuf, stop_from, lexit, lint, dequeued>>
    /\ UNCHANGED <<args, fvars, wvars, qvars>>

\* the args of worker i's Process between the wrapped function and the
\* queue
WorkerArgsSwapped(k) == <<k, processor_count, records_per_process>>

WorkerArgs(k) == <<processor_count, k, records_per_process>>

\* args=(func_to_parallelise, processor_count, i, records_per_process,
\* log_queue, *args)
ProcessArgs(k) == <<"func_to_parallelise">> \o WorkerArgs(k) \o <<"log_queue", "*args">>

\* args[0](*(args[1:])): what the wrapper calls the work function with
CallArgs(a) == Tail(a)

\* one loop that starts each process as soon as it is constructed
OrchConstructAndStart ==
    /\ pc_o = "l32"
    /\ IF i < processor_count
       THEN /\ wpc' = [wpc EXCEPT ![i] = "running"]
            /\ wargs' = [wargs EXCEPT ![i] = ProcessArgs(i)]
            /\ called' = [called EXCEPT ![i] = Append(@, CallArgs(ProcessArgs(i)))]
            /\ i' = i + 1
            /\ UNCHANGED pc_o
       ELSE /\ pc_o' = "l44"
            /\ i' = 0
            /\ UNCHANGED <<wpc, wargs, called>>
    /\ UNCHANGED <<records_per_process, err, notice, exit_o, stops_sent, oint>>
    /\ UNCHANGED <<wexit, emitted, wexc>>
    /\ UNCHANGED <<args, fnvars, fvars, lvars, qvars>>

\* for i in range(processor_count): process = Process(...); append
OrchConstruct ==
    /\ pc_o = "l32"
    /\ IF i < processor_count
       THEN /\ wpc' = [wpc EXCEPT ![i] = "constructed"]
            /\ wargs' = [wargs EXCEPT ![i] = ProcessArgs(i)]
            /\ i' = i + 1
            /\ UNCHANGED pc_o
       ELSE /\ pc_o' = "l40"
            /\ i' = 0
            /\ UNCHANGED <<wpc, wargs>>
    /\ UNCHANGED <<records_per_process, err, notice, exit_o, stops_sent, oint>>
    /\ UNCHANGED <<wexit, emitted, wexc, called>>
    /\ UNCHANGED <<args, fnvars, fvars, lvars, qvars>>

\* for process in processesList: process.start(); the new process runs the
\* wrapper, which calls the work function
OrchStart ==
    /\ pc_o = "l40"
    /\ IF i < processor_count
       THEN /\ wpc' = [wpc EXCEPT ![i] = "running"]
            /\ called' = [called EXCEPT ![i] = Append(@, CallArgs(wargs[i]))]
            /\ i' = i + 1
            /\ UNCHANGED pc_o
       ELSE /\ pc_o' = "l44"
            /\ i' = 0
            /\ UNCHANGED <<wpc, called>>
    /\ UNCHANGED <<records_per_process, err, notice, exit_o, stops_sent, oint>>
    /\ UNCHANGED <<wexit, wargs, emitted, wexc>>
    /\ UNCHANGED <<args, fnvars, fvars, lvars, qvars>>

\* process.join() returns once the process has terminated, whatever its
\* exit status
JoinableAlways(w) == TRUE

Joinable(w) == wpc[w] = "terminated"

\* for process in processesList: process.join()
OrchJoin ==
    /\ pc_o = "l44"
    /\ IF i < processor_count
       THEN /\ Joinable(i)
            /\ i' = i + 1
            /\ UNCHANGED pc_o
       ELSE /\ pc_o' = "l48"
            /\ UNCHANGED i
    /\ UNCHANGED <<records_per_process, err, notice, exit_o, stops_sent, oint>>
    /\ UNCHANGED <<args, fvars, lvars, wvars, qvars>>

\* log_queue.put(STOP_TOKEN)
OrchPutStop ==
    /\ pc_o = "l48"
    /\ obuf' = Append(obuf, StopMsg)
    /\ stops_sent' = stops_sent + 1
    /\ pc_o' = "l49"
    /\ UNCHANGED <<records_per_process, err, notice, exit_o, i, oint>>
    /\ UNCHANGED <<buf, pipe>>
    /\ UNCHANGED <<args, fvars, lvars, wvars>>

\* log_process.join(), then the return
OrchJoinLogger ==
    /\ pc_o = "l49"
    /\ lpc = "terminated"
    /\ pc_o' = "returned"
    /\ UNCHANGED <<records_per_process, err, notice, exit_o, i, stops_sent, oint>>
    /\ UNCHANGED <<args, fvars, lvars, wvars, qvars>>

\* the positions inside 'try:' ... 'except KeyboardInterrupt:'
InTryShort(pos) == pos \in {"l40", "l44"}

InTry(pos) == pos \in {"l40", "l44", "l48", "l49"}

\* a KeyboardInterrupt raised in the orchestrator, wherever it is: inside
\* the try the except clause is next and the loop it was in is left,
\* elsewhere the exception goes to the caller
OrchInterrupt ==
    /\ ~oint
    /\ pc_o \in {"l20", "l23", "l26", "l32", "l40", "l44", "l48", "l49"}
    /\ oint' = TRUE
    /\ i' = 0
    /\ IF InTry(pc_o)
       THEN /\ pc_o' = "l51"
            /\ UNCHANGED err
       ELSE /\ pc_o' = "raised"
            /\ err' = "KeyboardInterrupt"
    /\ UNCHANGED <<records_per_process, notice, exit_o, stops_sent>>
    /\ UNCHANGED <<args, fvars, lvars, wvars, qvars>>

\* the status shutdown() ends the process with: sys.exit(0) raises
\* SystemExit, which is caught, and os._exit(0) follows
ShutdownStatus == 0

\* an except clause that also ends the logger: log_process.terminate()
OrchExceptTerminatesLogger ==
    /\ pc_o = "l51"
    /\ notice' = TRUE
    /\ exit_o' = ShutdownStatus
    /\ pc_o' = "exited"
    /\ obuf' = <<>>
    /\ lpc' = "terminated"
    /\ lexit' = -15
    /\ UNCHANGED <<records_per_process, err, i, stops_sent, oint>>
    /\ UNCHANGED <<line, fbuf, stop_from, lint, dequeued>>
    /\ UNCHANGED <<buf, pipe>>
    /\ UNCHANGED <<args, fvars, wvars>>

\* print(f'\nInterrupted - view file "{logfile_name}"\n'); shutdown():
\* the process ends at once, and with it the queue's feeder thread and
\* what it had not yet written to the pipe
OrchExcept ==
    /\ pc_o = "l51"
    /\ notice' = TRUE
    /\ exit_o' = ShutdownStatus
    /\ pc_o' = "exited"
    /\ obuf' = <<>>
    /\ UNCHANGED <<records_per_process, err, i, stops_sent, oint>>
    /\ UNCHANGED <<buf, pipe>>
    /\ UNCHANGED <<args, fvars, lvars, wvars>>

Orchestrator ==
    \/ OrchDivide
    \/ OrchRemove
    \/ OrchStartLogger
    \/ OrchConstruct
    \/ OrchStart
    \/ OrchJoin
    \/ OrchPutStop
    \/ OrchJoinLogger
    \/ OrchInterrupt
    \/ OrchExcept

(***************************************************************************)
(* logger_process_run                                                      *)
(***************************************************************************)
\* the file's content after open(logfile, 'w')
OpenTruncate(content) == <<>>

\* with open(logfile, 'w') as f
LoggerOpen ==
    /\ lpc = "started"
    /\ file_exists' = TRUE
    /\ sink' = OpenTruncate(sink)
    /\ lpc' = "get"
    /\ UNCHANGED <<line, fbuf, stop_from, lexit, lint, dequeued>>
    /\ UNCHANGED <<args, ovars, wvars, qvars>>

\* line == stop_token
IsStop(m) == m.text = STOP_TOKEN

\* line = log_queue.get(); if line == stop_token: f.close(); break, after
\* which the function returns and the process ends; otherwise on to write
LoggerGet ==
    /\ lpc = "get"
    /\ pipe # <<>>
    /\ pipe' = Tail(pipe)
    /\ dequeued' = Append(dequeued, Head(pipe))
    /\ IF IsStop(Head(pipe))
       THEN /\ lpc' = "terminated"
            /\ lexit' = 0
            /\ stop_from' = Head(pipe).src
            /\ UNCHANGED line
       ELSE /\ lpc' = "write"
            /\ line' = Head(pipe)
            /\ UNCHANGED <<stop_from, lexit>>
    /\ UNCHANGED <<fbuf, lint>>
    /\ UNCHANGED <<buf, obuf>>
    /\ UNCHANGED <<args, fvars, ovars, wvars>>

\* f.write(line): what is written and not yet flushed
FileWriteNothing(fb, ln) == fb

FileWrite(fb, ln) == Append(fb, ln)

\* f.write(line)
LoggerWrite ==
    /\ lpc = "write"
    /\ fbuf' = FileWrite(fbuf, line)
    /\ lpc' = "flush"
    /\ UNCHANGED <<line, stop_from, lexit, lint, dequeued>>
    /\ UNCHANGED <<args, fvars, ovars, wvars, qvars>>

\* f.flush(): the file's content once what was written is on disk; the
\* file was opened once and the writes follow one another
FileFlushOverwrite(content, fb) == fb

FileFlushPrepend(content, fb) == fb \o content

FileFlush(content, fb) == content \o fb

\* f.flush(), and back to the head of the loop
LoggerFlush ==
    /\ lpc = "flush"
    /\ sink' = FileFlush(sink, fbuf)
    /\ fbuf' = <<>>
    /\ line' = NoMsg
    /\ lpc' = "get"
    /\ UNCHANGED <<stop_from, lexit, lint, dequeued>>
    /\ UNCHANGED file_exists
    /\ UNCHANGED <<args, ovars, wvars, qvars>>

\* a KeyboardInterrupt inside the try: the with statement closes f, which
\* writes out what was not flushed, and shutdown() ends the process
LoggerInterrupt ==
    /\ ~lint
    /\ lpc \in {"started", "get", "write", "flush"}
    /\ lint' = TRUE
    /\ sink' = FileFlush(sink, fbuf)
    /\ fbuf' = <<>>
    /\ lpc' = "terminated"
    /\ lexit' = ShutdownStatus
    /\ UNCHANGED <<line, stop_from, dequeued>>
    /\ UNCHANGED file_exists
    /\ UNCHANGED <<args, ovars, wvars, qvars>>

Logger ==
    \/ LoggerOpen
    \/ LoggerGet
    \/ LoggerWrite
    \/ LoggerFlush
    \/ LoggerInterrupt

(***************************************************************************)
(* wrapper_process_with_keyboard_exception, around any work function       *)
(***************************************************************************)
RECURSIVE TotalEmitted(_)
TotalEmitted(n) == IF n = 0 THEN 0 ELSE Len(emitted[n - 1]) + TotalEmitted(n - 1)

\* a work function that writes to the log file itself
WorkerPutToFile(w, t) ==
    /\ wpc[w] = "running"
    /\ TotalEmitted(MaxProcs) < MaxMsgs
    /\ LET m == WorkerMsg(w, Len(emitted[w]) + 1, t)
       IN  /\ emitted' = [emitted EXCEPT ![w] = Append(@, m)]
           /\ sink' = Append(sink, m)
    /\ file_exists' = TRUE
    /\ UNCHANGED <<wpc, wexit, wargs, wexc, called>>
    /\ UNCHANGED <<args, fnvars, ovars, lvars, qvars>>

\* the work function puts a text on the queue: log_queue.put(...)
WorkerPut(w, t) ==
    /\ wpc[w] = "running"
    /\ TotalEmitted(MaxProcs) < MaxMsgs
    /\ LET m == WorkerMsg(w, Len(emitted[w]) + 1, t)
       IN  /\ emitted' = [emitted EXCEPT ![w] = Append(@, m)]
           /\ buf' = [buf EXCEPT ![w] = Append(@, m)]
    /\ UNCHANGED <<wpc, wexit, wargs, wexc, called>>
    /\ UNCHANGED <<obuf, pipe>>
    /\ UNCHANGED <<args, fnvars, fvars, ovars, lvars>>

\* the work function returns, and so does the wrapper
WorkerReturn(w) ==
    /\ wpc[w] = "running"
    /\ wpc' = [wpc EXCEPT ![w] = "exiting"]
    /\ wexit' = [wexit EXCEPT ![w] = 0]
    /\ UNCHANGED <<wargs, emitted, wexc, called>>
    /\ UNCHANGED <<args, fnvars, fvars, ovars, lvars, qvars>>

\* except KeyboardInterrupt
WrapperCatchesAll(exc) == TRUE

WrapperCatchesNone(exc) == FALSE

WrapperCatches(exc) == exc = "KeyboardInterrupt"

\* an exception leaves the work function: the wrapper catches it and calls
\* os._exit(0), which ends the process and its feeder thread at once, or
\* lets it go, and the process ends with a traceback and status 1
WorkerRaise(w, exc) ==
    /\ wpc[w] = "running"
    /\ wexc' = [wexc EXCEPT ![w] = exc]
    /\ IF WrapperCatches(exc)
       THEN /\ wpc' = [wpc EXCEPT ![w] = "terminated"]
            /\ wexit' = [wexit EXCEPT ![w] = 0]
            /\ buf' = [buf EXCEPT ![w] = <<>>]
       ELSE /\ wpc' = [wpc EXCEPT ![w] = "exiting"]
            /\ wexit' = [wexit EXCEPT ![w] = 1]
            /\ UNCHANGED buf
    /\ UNCHANGED <<wargs, emitted, called>>
    /\ UNCHANGED <<obuf, pipe>>
    /\ UNCHANGED <<args, fnvars, fvars, ovars, lvars>>

\* a process that ends normally first waits for the queue's feeder thread
\* to write the process's buffer to the pipe
WorkerExit(w) ==
    /\ wpc[w] = "exiting"
    /\ buf[w] = <<>>
    /\ wpc' = [wpc EXCEPT ![w] = "terminated"]
    /\ UNCHANGED <<wexit, wargs, emitted, wexc, called>>
    /\ UNCHANGED <<args, fnvars, fvars, ovars, lvars, qvars>>

Worker(w) ==
    \/ \E t \in Texts : WorkerPut(w, t)
    \/ WorkerReturn(w)
    \/ \E exc \in {"KeyboardInterrupt", "Exception"} : WorkerRaise(w, exc)
    \/ WorkerExit(w)

(***************************************************************************)
(* multiprocessing.Queue: put appends to a buffer of the putting process;  *)
(* a feeder thread of that process writes the buffer to the pipe, one      *)
(* whole message at a time.                                                *)
(***************************************************************************)
\* the pipe is first in, first out: a message is written at its end
PipeSendFront(p, m) == <<m>> \o p

PipeSend(p, m) == Append(p, m)

WorkerFeed(w) ==
    /\ wpc[w] \in {"running", "exiting"}
    /\ buf[w] # <<>>
    /\ pipe' = PipeSend(pipe, Head(buf[w]))
    /\ buf' = [buf EXCEPT ![w] = Tail(@)]
    /\ UNCHANGED obuf
    /\ UNCHANGED <<args, fvars, ovars, lvars, wvars>>

OrchFeed ==
    /\ pc_o # "exited"
    /\ obuf # <<>>
    /\ pipe' = PipeSend(pipe, Head(obuf))
    /\ obuf' = Tail(obuf)
    /\ UNCHANGED buf
    /\ UNCHANGED <<args, fvars, ovars, lvars, wvars>>

Next ==
    \/ Orchestrator
    \/ Logger
    \/ \E w \in Workers : Worker(w)
    \/ \E w \in Workers : WorkerFeed(w)
    \/ OrchFeed

Spec == Init /\ [][Next]_vars

(***************************************************************************)
(* The division of line 20 alone, on record counts around 2^MANT_DIG,      *)
(* where a float no longer holds every integer.                            *)
(***************************************************************************)
LargeCounts ==
    {Shifted(1, k, c) : k \in MANT_DIG - 1 .. MANT_DIG + MaxShift, c \in 0 .. MaxLow}

InitPartition ==
    /\ processor_count \in 1 .. MaxDivisor
    /\ records_count \in LargeCounts \cup {NatToBits(n) : n \in 0 .. MaxLow}
    /\ func = "work_function"
    /\ file_exists = FALSE /\ sink = <<>> /\ sink0 = <<>>
    /\ InitRun

NextPartition == OrchDivide

SpecPartition == InitPartition /\ [][NextPartition]_vars

(***************************************************************************)
(* payments-records-loader.py: insert_payment_records and                  *)
(* query_payment_records, the work functions main() passes to              *)
(* run_data_processors.  A database call may succeed or raise; where the   *)
(* interrupt of a worker comes is free.                                    *)
(***************************************************************************)
LoaderFuncs == {"insert_payment_records", "query_payment_records"}

\* the divisor of 'records_per_process/100'
PercentSteps == 100

\* parameter k of the call of worker w's work function: processor_count,
\* process_id, records_per_process
Param(w, k) == called[w][1][k]

\* the number of iterations of 'for count in range(records_per_process)'
RangeLen(w) == IF Param(w, 3).neg THEN 0 ELSE BitsToNat(Param(w, 3).mag)

\* f'{process_id}_{count}'
DocIdNoProcess(pid, c) == ToString(c)

DocId(pid, c) == ToString(pid) \o "_" \o ToString(c)

\* the _id an iteration may build: insert_payment_records its own next one,
\* query_payment_records f'{randint(0, processor_count-1)}_{randint(0,
\* records_per_process-1)}'
NextIds(w) ==
    IF func = "insert_payment_records"
    THEN {DocId(Param(w, 2), count[w])}
    ELSE {DocId(a, b) : a \in 0 .. Param(w, 1) - 1, b \in 0 .. RangeLen(w) - 1}

\* count % (records_per_process/100) == 0, for 0 <= c < rpp.  The divisor
\* is a float.  It is rpp/100 exactly when 25 divides rpp, and c is then a
\* multiple of it when 100*c is a multiple of rpp; otherwise it is the
\* float nearest to rpp/100, of which no count of the loop but 0 is a
\* multiple.
Sampled(c, rpp) ==
    IF rpp % (PercentSteps \div 4) = 0
    THEN (c * PercentSteps) % rpp = 0
    ELSE c = 0

\* the line logSampleStatusOnEachPercent puts for an iteration
LoaderMsg(w, c) == [src |-> ToString(Param(w, 2)), n |-> c, text |-> "line"]

\* (connection, database, collection) =
\* getClientConnDBCollectionWithConcerns(uri, mode)
LoaderConnect(w) ==
    /\ func \in LoaderFuncs
    /\ wpc[w] = "running" /\ fpc[w] = "none"
    /\ fpc' = [fpc EXCEPT ![w] = "for"]
    /\ UNCHANGED <<count, doc_id, ids, db_ops, caught>>
    /\ UNCHANGED <<wpc, wexit, wargs, emitted, wexc, called>>
    /\ UNCHANGED <<args, fvars, ovars, lvars, qvars>>

\* MongoClient(...) raises, outside any try of the work function
LoaderConnectFails(w) ==
    /\ func \in LoaderFuncs
    /\ fpc[w] = "none"
    /\ WorkerRaise(w, "Exception")

\* for count in range(records_per_process): the next iteration builds its
\* _id; after the last one the function returns
LoaderFor(w) ==
    /\ wpc[w] = "running" /\ fpc[w] = "for"
    /\ IF count[w] < RangeLen(w)
       THEN /\ \E id \in NextIds(w) :
                 /\ doc_id' = [doc_id EXCEPT ![w] = id]
                 /\ ids' = IF func = "insert_payment_records"
                           THEN [ids EXCEPT ![w] = Append(@, id)]
                           ELSE ids
            /\ fpc' = [fpc EXCEPT ![w] = "op"]
            /\ UNCHANGED <<wpc, wexit>>
       ELSE /\ fpc' = [fpc EXCEPT ![w] = "done"]
            /\ wpc' = [wpc EXCEPT ![w] = "exiting"]
            /\ wexit' = [wexit EXCEPT ![w] = 0]
            /\ UNCHANGED <<doc_id, ids>>
    /\ UNCHANGED <<count, db_ops, caught>>
    /\ UNCHANGED <<wargs, emitted, wexc, called>>
    /\ UNCHANGED <<args, fvars, ovars, lvars, qvars>>

\* an except clause without its break: the loop goes on
LoaderOpContinue(w) ==
    /\ wpc[w] = "running" /\ fpc[w] = "op"
    /\ db_ops' = [db_ops EXCEPT ![w] = @ + 1]
    /\ \E ok \in BOOLEAN :
          IF ok
          THEN /\ fpc' = [fpc EXCEPT ![w] = "log"]
               /\ UNCHANGED <<caught, count>>
          ELSE /\ caught' = [caught EXCEPT ![w] = count[w]]
               /\ count' = [count EXCEPT ![w] = @ + 1]
               /\ fpc' = [fpc EXCEPT ![w] = "for"]
    /\ doc_id' = [doc_id EXCEPT ![w] = ""]
    /\ UNCHANGED ids
    /\ UNCHANGED <<wpc, wexit, wargs, emitted, wexc, called>>
    /\ UNCHANGED <<args, fvars, ovars, lvars, qvars>>

\* collection.insert_one(ingest_doc) or collection.find_one({'_id':
\* doc_id}): it returns, or raises an Exception, which the except clause
\* of the loop catches: print, traceback.print_exc(), break, and the
\* function returns
LoaderOp(w) ==
    /\ wpc[w] = "running" /\ fpc[w] = "op"
    /\ db_ops' = [db_ops EXCEPT ![w] = @ + 1]
    /\ \E ok \in BOOLEAN :
          IF ok
          THEN /\ fpc' = [fpc EXCEPT ![w] = "log"]
               /\ UNCHANGED <<caught, wpc, wexit>>
          ELSE /\ caught' = [caught EXCEPT ![w] = count[w]]
               /\ fpc' = [fpc EXCEPT ![w] = "done"]
               /\ wpc' = [wpc EXCEPT ![w] = "exiting"]
               /\ wexit' = [wexit EXCEPT ![w] = 0]
    /\ doc_id' = [doc_id EXCEPT ![w] = ""]
    /\ UNCHANGED <<count, ids>>
    /\ UNCHANGED <<wargs, emitted, wexc, called>>
    /\ UNCHANGED <<args, fvars, ovars, lvars, qvars>>

\* logSampleStatusOnEachPercent(log_queue, records_per_process,
\* process_id, count, start), and on to the next count
LoaderLog(w) ==
    /\ wpc[w] = "running" /\ fpc[w] = "log"
    /\ IF Sampled(count[w], RangeLen(w))
       THEN /\ emitted' = [emitted EXCEPT ![w] = Append(@, LoaderMsg(w, count[w]))]
            /\ buf' = [buf EXCEPT ![w] = Append(@, LoaderMsg(w, count[w]))]
       ELSE UNCHANGED <<emitted, buf>>
    /\ count' = [count EXCEPT ![w] = @ + 1]
    /\ fpc' = [fpc EXCEPT ![w] = "for"]
    /\ UNCHANGED <<doc_id, ids, db_ops, caught>>
    /\ UNCHANGED <<wpc, wexit, wargs, wexc, called>>
    /\ UNCHANGED <<obuf, pipe>>
    /\ UNCHANGED <<args, fvars, ovars, lvars>>

Loader(w) ==
    \/ LoaderConnect(w)
    \/ LoaderConnectFails(w)
    \/ LoaderFor(w)
    \/ LoaderOp(w)
    \/ LoaderLog(w)
    \/ WorkerRaise(w, "KeyboardInterrupt")
    \/ WorkerExit(w)

\* the --procs and --totalrec tried: small ones, and one process with the
\* smallest total whose hundredth is an exact float, so that every
\* iteration is sampled
LoaderInputs ==
    {<<n, t>> : n \in 1 .. MaxProcs, t \in 0 .. MaxTotalRec}
        \cup {<<1, PercentSteps \div 4>>}

\* main(): dmp.run_data_processors(args.procs, args.totalrec, args.logfile,
\* query_payment_records or insert_payment_records, args.url, args.mode),
\* for a positive number of processes and no file at args.logfile
InitLoader ==
    /\ \E in \in LoaderInputs :
          /\ processor_count = in[1]
          /\ records_count = NatToBits(in[2])
    /\ func \in LoaderFuncs
    /\ file_exists = FALSE /\ sink = <<>> /\ sink0 = <<>>
    /\ InitRun

\* a run of the loader in which only workers are interrupted
NextLoader ==
    \/ OrchDivide
    \/ OrchRemove
    \/ OrchStartLogger
    \/ OrchConstruct
    \/ OrchStart
    \/ OrchJoin
    \/ OrchPutStop
    \/ OrchJoinLogger
    \/ LoggerOpen
    \/ LoggerGet
    \/ LoggerWrite
    \/ LoggerFlush
    \/ \E w \in Workers : Loader(w)
    \/ \E w \in Workers : WorkerFeed(w)
    \/ OrchFeed

SpecLoader == InitLoader /\ [][NextLoader]_vars

(***************************************************************************)
(* Properties.                                                             *)
(***************************************************************************)
Started(w) == w < processor_count
AllWorkersTerminated == \A w \in Workers : Started(w) => wpc[w] = "terminated"
NoInterrupt ==
    /\ ~oint
    /\ ~lint
    /\ \A w \in Workers : wexc[w] # "KeyboardInterrupt"
EmittedSet == UNION {{emitted[w][k] : k \in DOMAIN emitted[w]} : w \in Workers}
InSink(m) == {j \in DOMAIN sink : sink[j] = m}
NoWorkerStop == \A m \in EmittedSet : m.text # STOP_TOKEN

C2_StopOnlyAfterJoins ==
    /\ stops_sent <= 1
    /\ stops_sent = 1 => AllWorkersTerminated
    /\ stop_from = "orch" => stops_sent = 1 /\ AllWorkersTerminated

C2_Witness ==
    /\ stop_from = "orch"
    /\ processor_count = 2
    /\ emitted[0] # <<>> /\ emitted[1] # <<>>

\* C3: the logger leaves its loop only on the value the orchestrator sent,
\* so only when every worker has terminated; whatever a worker put is
\* written, and the logger goes on.
C3_OnlyOrchestratorStops ==
    (lpc = "terminated" /\ ~lint) =>
        /\ stop_from = "orch"
        /\ AllWorkersTerminated

\* C4: for processor_count > 0, records_per_process is the floor of
\* records_count / processor_count, and processor_count times it, plus
\* records_count mod processor_count, is records_count.
C4_PartitionIsFloor ==
    (processor_count > 0 /\ records_per_process # None) =>
        /\ ~records_per_process.neg
        /\ records_per_process.mag = FloorDiv(records_count, processor_count)
        /\ AddSmall(MulSmall(records_per_process.mag, processor_count),
                    Mod(records_count, processor_count)) = records_count

\* C5: a run without an interrupt has returned only after the logger took
\* the stop token the orchestrator sent.
C5_ReturnedMeansStopConsumed ==
    (pc_o = "returned" /\ NoInterrupt) =>
        /\ lpc = "terminated"
        /\ stop_from = "orch"

\* C6: with processor_count <= 0 the run gets no further than the division
\* of line 20: it fails there, with the file at logfile_name as it was and
\* no process created.
C6_NonPositiveCountFailsFast ==
    processor_count <= 0 =>
        /\ pc_o \in {"l20", "raised"}
        /\ (pc_o = "raised" /\ ~oint) => err = "ZeroDivisionError"
        /\ file_exists = (sink0 # <<>>) /\ sink = sink0
        /\ lpc = "none"
        /\ \A w \in Workers : wpc[w] = "none"

\* C7: whatever was at logfile_name, the run raises no FileNotFoundError,
\* and from the start of the logger on, so whenever it writes, the file
\* holds only messages put on the queue in this run: it is empty until the
\* first of them is flushed.
C7_SinkReplaced ==
    /\ err # "FileNotFoundError"
    /\ lpc # "none" =>
          /\ \A j \in DOMAIN sink : sink[j] \in EmittedSet
          /\ \A j \in DOMAIN fbuf : fbuf[j] \in EmittedSet
    /\ lpc \in {"get", "write", "flush"} => file_exists

\* a run that began with a stale file has returned with messages in it
C7_Witness ==
    /\ sink0 = <<StaleMsg>>
    /\ pc_o = "returned" /\ sink # <<>>

\* C8: however the workers ended, an orchestrator that is not interrupted
\* raises nothing (but the ZeroDivisionError of line 20), joins a
\* terminated worker whatever its exit status, and has returned only after
\* joining every worker, putting one stop token and joining the logger.
\* The wrapper lets any exception but KeyboardInterrupt go: that worker ends
\* with status 1, a cancelled one with status 0.
C8_WorkerOutcomesInvisible ==
    /\ (pc_o = "raised" /\ ~oint) => err = "ZeroDivisionError"
    /\ (pc_o = "l44" /\ i < processor_count /\ wpc[i] = "terminated")
          => ENABLED OrchJoin
    /\ pc_o = "returned" =>
          /\ AllWorkersTerminated
          /\ i >= processor_count
          /\ stops_sent = 1
          /\ lpc = "terminated"
          /\ err = "none" /\ ~notice /\ exit_o = -1
    /\ \A w \in Workers :
          /\ (wexc[w] = "Exception") => wexit[w] = 1
          /\ (wexc[w] = "KeyboardInterrupt") => wexit[w] = 0
          /\ (wexc[w] = "none" /\ wpc[w] \in {"exiting", "terminated"})
                => wexit[w] = 0

\* returned, with one worker ended by an error and one cancelled
C8_Witness ==
    /\ pc_o = "returned" /\ ~oint
    /\ wexc[0] = "Exception" /\ wexc[1] = "KeyboardInterrupt"

InterruptedInTry == ~oint /\ oint' /\ pc_o \in {"l40", "l44", "l48", "l49"}
InExcept == pc_o \in {"l51", "exited"}

\* C9: a KeyboardInterrupt in the orchestrator while it starts or joins the
\* workers, puts the stop token or joins the logger takes it to the except
\* clause; from there it prints the notice and exits with status 0 without
\* putting a stop token, returning or raising.
C9_InterruptInTry ==
    /\ [](pc_o = "exited" => oint /\ notice /\ exit_o = 0 /\ err = "none")
    /\ [][InterruptedInTry => pc_o' = "l51" /\ err' = "none"]_vars
    /\ [][InExcept => InExcept' /\ stops_sent' = stops_sent /\ err' = "none"]_vars

\* interrupted while joining the logger, which is still reading
C9_Witness ==
    /\ pc_o = "exited" /\ notice /\ exit_o = 0
    /\ stops_sent = 1 /\ lpc = "get"

OthersUnchangedBy(w) ==
    /\ UNCHANGED <<args, fvars, ovars, lvars, obuf, pipe, wargs, emitted, called, fnvars>>
    /\ \A v \in Workers \ {w} :
          /\ wpc'[v] = wpc[v] /\ wexit'[v] = wexit[v]
          /\ wexc'[v] = wexc[v] /\ buf'[v] = buf[v]

Cancelled(w) == wexc[w] = "KeyboardInterrupt"

NothingMoreFrom(w) ==
    /\ emitted'[w] = emitted[w] /\ buf'[w] = buf[w]
    /\ wpc'[w] = wpc[w] /\ wexit'[w] = wexit[w]
    /\ Len(pipe') > Len(pipe) => pipe'[Len(pipe')].src # ToString(w)

\* C10: a KeyboardInterrupt in a work function ends that worker at once
\* with status 0: it puts nothing more on the queue and nothing more of it
\* reaches the pipe, and the step changes nothing of the other workers, the
\* logger or the orchestrator.
C10_WorkerCancelled ==
    /\ [](\A w \in Workers : Cancelled(w) => wpc[w] = "terminated" /\ wexit[w] = 0)
    /\ [][\A w \in Workers : ~Cancelled(w) /\ Cancelled(w)' => OthersUnchangedBy(w)]_vars
    /\ [][\A w \in Workers : Cancelled(w) => NothingMoreFrom(w)]_vars

\* worker 0 was cancelled after a put; worker 1 then ran to its end, and
\* its message is in the sink of a run that returned
C10_Witness ==
    /\ wexc[0] = "KeyboardInterrupt" /\ emitted[0] # <<>>
    /\ wexc[1] = "none" /\ emitted[1] # <<>>
    /\ pc_o = "returned" /\ sink = emitted[1]

IsPrefix(s, t) == Len(s) <= Len(t) /\ SubSeq(t, 1, Len(s)) = s
IsFrom(w, m) == m.src = ToString(w)
SinkOf(w) == SelectSeq(sink, LAMBDA m : IsFrom(w, m))

\* C11: the lines of the file that came from one worker are, in the file's
\* order, the first messages that worker put, in the order it put them; the
\* lines of different workers may follow one another in either order.
C11_PerWorkerOrder ==
    \A w \in Workers : IsPrefix(SinkOf(w), emitted[w])

\* one worker put two messages and the file holds them, in that order
C11_Witness ==
    /\ Len(emitted[0]) = 2
    /\ sink = emitted[0]
    /\ pc_o = "returned"

\* C12: from the start of the logger on, and whoever was interrupted, the
\* file together with what is written and not yet flushed is a sequence of
\* whole messages: the first messages the logger took from the queue, in
\* that order; once the logger has ended nothing is left unflushed.
C12_SinkIsPrefixOfDequeued ==
    lpc # "none" =>
        /\ IsPrefix(sink \o fbuf, dequeued)
        /\ lpc = "terminated" => fbuf = <<>>

\* orchestrator, logger and a worker were all interrupted, the logger
\* between taking its second message and writing it
C12_Witness ==
    /\ oint /\ lint /\ wexc[1] = "KeyboardInterrupt"
    /\ Len(dequeued) = 2 /\ Len(sink) = 1

SinkStep == sink' # sink \/ file_exists' # file_exists
RemoveStep == pc_o = "l23" /\ pc_o' = "l26" /\ lpc = "none" /\ lpc' = "none"
LoggerStep == lvars' # lvars /\ UNCHANGED <<ovars, wvars, buf, obuf>>
SinkKept == IsPrefix(sink, sink') /\ (file_exists => file_exists')

\* C13: a step that changes the file is the orchestrator's os.remove, taken
\* while the logger is not yet started, or a step of the logger alone; from
\* the start of the logger on the file only grows at its end and is never
\* removed.
C13_OnlyLoggerWrites ==
    /\ [][SinkStep => RemoveStep \/ LoggerStep]_vars
    /\ [][lpc # "none" => SinkKept]_vars

\* a stale file was removed and the logger has written two lines to the
\* new one while the orchestrator waits for the workers
C13_Witness ==
    /\ sink0 # <<>>
    /\ Len(sink) = 2 /\ pc_o = "l44"

NonStop(q) == SelectSeq(q, LAMBDA m : ~IsStop(m))

\* C14: while the logger waits on the queue the file holds every message
\* it has taken so far, in the order it took them, and nothing is written
\* and not flushed; at every moment at most one message it has taken, the
\* stop token aside, is not yet in the file.
C14_FlushedBeforeNextGet ==
    /\ lpc = "get" => sink = dequeued /\ fbuf = <<>>
    /\ lpc # "none" => Len(NonStop(dequeued)) - Len(sink) <= 1

\* waiting for a third message with two in the file
C14_Witness ==
    /\ lpc = "get" /\ ~lint
    /\ Len(dequeued) = 2 /\ sink = dequeued

WorkerWasStarted(w) == wpc[w] \in {"running", "exiting", "terminated"}
StartLoopDone == pc_o \in {"l44", "l48", "l49", "returned"}

\* C15: the orchestrator makes a worker for each index below
\* processor_count and for no other; a worker calls the work function once,
\* when it is started, with (processor_count, its index,
\* records_per_process, the queue, the extra arguments) in that order, and
\* once the start loop is done every index has had its one call.
C15_OneCallPerIndex ==
    \A w \in Workers :
        /\ w >= processor_count => wpc[w] = "none" /\ called[w] = <<>>
        /\ Len(called[w]) = IF WorkerWasStarted(w) THEN 1 ELSE 0
        /\ called[w] # <<>> =>
              called[w][1] = <<processor_count, w, records_per_process, "log_queue", "*args">>
        /\ (StartLoopDone /\ w < processor_count) => Len(called[w]) = 1

\* a run of two workers has returned
C15_Witness ==
    /\ processor_count = 2 /\ pc_o = "returned"
    /\ called[0] # <<>> /\ called[1] # <<>>

WorkerExists(w) == wpc[w] # "none"
JoinStep == pc_o = "l44" /\ pc_o' = "l44" /\ i' # i

\* C16: the logger is started before any worker is constructed; while the
\* workers are constructed none is started; they are started in index
\* order, and only when all are constructed; none is joined before all are
\* started, and they are joined in index order, the order of their start.
C16_StartOrder ==
    /\ [](\A w \in Workers : WorkerExists(w) => lpc # "none")
    /\ [](pc_o = "l32" => \A w \in Workers :
              ~WorkerWasStarted(w) /\ (WorkerExists(w) <=> w < i))
    /\ [](\A w \in Workers : WorkerWasStarted(w) =>
              \A v \in Workers : v < processor_count => WorkerExists(v))
    /\ [](pc_o = "l40" => \A w \in Workers : WorkerWasStarted(w) <=> w < i)
    /\ [](pc_o = "l44" => \A w \in Workers :
              /\ w < processor_count => WorkerWasStarted(w)
              /\ w < i => wpc[w] = "terminated")
    /\ [][JoinStep => i' = i + 1 /\ wpc[i] = "terminated"]_vars

\* the first worker is joined while the second, started after it, runs
C16_Witness ==
    /\ processor_count = 2
    /\ pc_o = "l44" /\ i = 1 /\ wpc[1] = "running"

OnlyOrchInterrupted ==
    /\ pc_o = "exited" /\ ~lint
    /\ \A w \in Workers : wexc[w] # "KeyboardInterrupt"
ExitStep == pc_o = "l51" /\ pc_o' = "exited"
StopEnqueued ==
    \/ \E j \in DOMAIN pipe : pipe[j] = StopMsg
    \/ \E j \in DOMAIN dequeued : dequeued[j] = StopMsg
    \/ \E j \in DOMAIN obuf : obuf[j] = StopMsg

\* C17 as stated: with the orchestrator alone interrupted (and no work
\* function putting the stop text), it has put no stop token and the
\* logger never ends.
C17_LoggerNeverCloses ==
    (OnlyOrchInterrupted /\ NoWorkerStop) =>
        /\ stops_sent = 0
        /\ lpc # "terminated"

\* C17, amended: the orchestrator's exit changes nothing of the workers,
\* the logger, the pipe or the file; if it was interrupted before it put
\* the stop token, no stop token of its is ever in the queue, and the
\* logger, unless interrupted itself or given the stop text by a work
\* function, never ends.
C17_NoPropagation ==
    /\ [][ExitStep => UNCHANGED <<lvars, wvars, buf, pipe, fvars>>]_vars
    /\ []((pc_o = "exited" /\ stops_sent = 0) => ~StopEnqueued)
    /\ []((OnlyOrchInterrupted /\ NoWorkerStop /\ stops_sent = 0) => lpc # "terminated")

\* the orchestrator has exited while joining; both workers have since
\* ended, their lines are in the file, and the logger waits on an empty
\* queue for a stop token that will not come
C17_Witness ==
    /\ OnlyOrchInterrupted /\ NoWorkerStop /\ stops_sent = 0
    /\ processor_count = 2 /\ AllWorkersTerminated
    /\ lpc = "get" /\ pipe = <<>> /\ Len(sink) = 2

\* C18: a KeyboardInterrupt in the orchestrator, wherever between entry and
\* return, in the logger or in a worker ends that process with status 0,
\* and none is raised to a caller.
C18_InterruptNeverSurfaces ==
    /\ oint => pc_o \in {"l51", "exited"} /\ err = "none"
    /\ pc_o = "exited" => exit_o = 0
    /\ lint => lpc = "terminated" /\ lexit = 0
    /\ \A w \in Workers :
          wexc[w] = "KeyboardInterrupt" => wpc[w] = "terminated" /\ wexit[w] = 0

\* C19: in insert_payment_records and query_payment_records a worker makes
\* at most records_per_process database calls; once a call has raised an
\* Exception the loop is left at that count with no further call, the
\* function has returned and the worker ends with status 0; every line it
\* put is of an earlier iteration; an Exception that did leave the
\* function came before the first iteration.
C19_LoaderErrorsStayInside ==
    \A w \in Workers : called[w] # <<>> =>
        /\ db_ops[w] <= RangeLen(w) /\ count[w] <= RangeLen(w)
        /\ caught[w] # -1 =>
              /\ fpc[w] = "done" /\ wpc[w] \in {"exiting", "terminated"}
              /\ wexit[w] = 0 /\ wexc[w] = "none"
              /\ count[w] = caught[w] /\ db_ops[w] = caught[w] + 1
              /\ \A j \in DOMAIN emitted[w] : emitted[w][j].n < caught[w]
        /\ wexc[w] = "Exception" => db_ops[w] = 0

\* the third database call of a worker raised; the run has returned, and
\* the file holds the lines of the two iterations before it
C19_Witness ==
    /\ caught[0] = 2 /\ wpc[0] = "terminated" /\ wexit[0] = 0
    /\ pc_o = "returned"
    /\ Len(sink) = 2 /\ sink = emitted[0]

RECURSIVE TotalIds(_)
TotalIds(n) == IF n = 0 THEN 0 ELSE Len(ids[n - 1]) + TotalIds(n - 1)
AllIds == UNION {{ids[w][j] : j \in DOMAIN ids[w]} : w \in Workers}
PartitionSize == IF records_per_process.neg THEN 0 ELSE BitsToNat(records_per_process.mag)
InsertIds == {DocId(a, b) : a \in 0 .. processor_count - 1, b \in 0 .. PartitionSize - 1}
Complete(w) == called[w] # <<>> /\ fpc[w] = "done" /\ caught[w] = -1
AllComplete == \A w \in Workers : w < processor_count => Complete(w)

\* C20: the _ids insert_payment_records has built are pairwise distinct;
\* when every worker has run its loop to the end without an error they are
\* processor_count * records_per_process in number and are the set of
\* '<i>_<c>' with i below processor_count and c below records_per_process;
\* every _id either function is about to use is of that set.
C20_IdsDistinctAndCovered ==
    /\ Cardinality(AllIds) = TotalIds(MaxProcs)
    /\ (func = "insert_payment_records" /\ StartLoopDone /\ AllComplete) =>
          /\ TotalIds(MaxProcs) = processor_count * PartitionSize
          /\ AllIds = InsertIds
    /\ \A w \in Workers : doc_id[w] # "" => doc_id[w] \in InsertIds

\* two workers have each inserted their two records
C20_Witness ==
    /\ func = "insert_payment_records" /\ processor_count = 2
    /\ pc_o = "returned" /\ AllComplete
    /\ Len(ids[0]) = 2 /\ Len(ids[1]) = 2

====
